---- MODULE Spec2Model ----
(***************************************************************************)
(* Model of the HTTP gateway (mcp_api_server.py) and the tool layer        *)
(* (mcp_tools.py): the two Flask handlers weather() and geo(), the tool    *)
(* functions get_weather() and geocode(), and the translation helper       *)
(* _translate_city_to_chinese().                                           *)
(*                                                                         *)
(* A Python str is a sequence of characters over a small alphabet.  Each   *)
(* handler runs on its own thread; it is split into steps at its blocking  *)
(* outbound HTTP calls, whose outcome the environment chooses.             *)
(***************************************************************************)
EXTENDS Integers, Sequences, FiniteSets, TLC

\* ------------------------------------------------------------- bounds

\* Longest query-string value the environment sends.
MaxLen == 2

\* Number of gateway requests served concurrently in SpecConc.
NumReq == 2

\* ------------------------------------------------------------ strings

SP == " "
\* Stands for one CJK character such as U+4EAC; any non-Latin, non-space character.
CJK == "U+4EAC"

\* The characters matched by the regular expression [a-zA-Z], on the alphabet.
LatinLetters == {"b", "B"}

Alphabet == {SP, CJK} \cup LatinLetters

RECURSIVE StrUpTo(_)
StrUpTo(n) ==
  IF n = 0 THEN {<<>>}
  ELSE LET shorter == StrUpTo(n - 1)
       IN shorter \cup {Append(s, c) : s \in {t \in shorter : Len(t) = n - 1}, c \in Alphabet}

Str == StrUpTo(MaxLen)

\* str.isspace() of one character.
IsSpace(c) == c = SP

RECURSIVE lstrip(_)
lstrip(s) == IF s # <<>> /\ IsSpace(Head(s)) THEN lstrip(Tail(s)) ELSE s

RECURSIVE rstrip(_)
rstrip(s) == IF s # <<>> /\ IsSpace(s[Len(s)]) THEN rstrip(SubSeq(s, 1, Len(s) - 1)) ELSE s

\* str.strip(): leading and trailing whitespace removed.
strip(s) == rstrip(lstrip(s))

\* re.search('[a-zA-Z]', s) finds a match.
re_search_latin(s) == \E i \in 1..Len(s) : s[i] \in LatinLetters

\* Python truthiness of a str: `not s` is true exactly for the empty string.
Falsy(s) == s = <<>>

\* ------------------------------------------- exceptions and JSON values

Return(v) == [kind |-> "return", value |-> v]
Raise(type, msg) == [kind |-> "raise", exc |-> [type |-> type, msg |-> msg]]

\* str(e) of an exception: its message.
str(e) == e.msg

\* What requests.get / requests.post raise when the transport fails.
TransportErrors ==
  { [type |-> "ConnectionError", msg |-> "Max retries exceeded with url"],
    [type |-> "Timeout", msg |-> "Read timed out."] }

\* A body that is not JSON.
NotJson == [type |-> "text", text |-> "<html>502 Bad Gateway</html>"]

JsonArray == [type |-> "array"]

\* JSON objects the mapping provider answers with.
ProviderObjects ==
  { [type |-> "object", status |-> "1", info |-> "OK", infocode |-> "10000"],
    [type |-> "object", status |-> "0", info |-> "INVALID_USER_KEY", infocode |-> "10001"],
    [type |-> "object"] }

\* response.json(): the decoded body, or JSONDecodeError.
json(response) ==
  IF response.body.type = "text"
  THEN Raise("JSONDecodeError", "Expecting value: line 1 column 1 (char 0)")
  ELSE Return(response.body)

\* data.get('status') on the decoded body: a dict answers (None when the key
\* is missing); anything else has no attribute get.
dict_get_status(data) ==
  IF data.type = "object"
  THEN Return(IF "status" \in DOMAIN data THEN data.status ELSE "None")
  ELSE Raise("AttributeError", "'list' object has no attribute 'get'")

\* response.raise_for_status(): HTTPError for 4xx and 5xx.
raise_for_status(response) ==
  IF response.status_code >= 400 /\ response.status_code < 600
  THEN Raise("HTTPError", "Client or Server Error for url")
  ELSE Return("None")

\* --------------------------------------------------- the environment

HttpResponse(code, body) == [kind |-> "response", status_code |-> code, body |-> body]

\* Outcomes of a GET to the mapping provider.
GetOutcomes ==
  { [kind |-> "raise", exc |-> e] : e \in TransportErrors }
  \cup { HttpResponse(200, b) : b \in ProviderObjects \cup {JsonArray} }
  \cup { HttpResponse(502, NotJson),
         HttpResponse(500, [type |-> "object", status |-> "0", info |-> "SERVICE_NOT_AVAILABLE"]) }

ChatBody(content) ==
  [type |-> "object", choices |-> <<[index |-> 0, message |-> [role |-> "assistant", content |-> content]]>>]

\* Texts the language model answers with.
ChatContents == { <<CJK>>, <<CJK, CJK>>, <<SP, CJK, CJK, SP>>, <<"b">>, <<SP>> }

\* Outcomes of the POST to the chat-completion endpoint.
PostOutcomes ==
  { [kind |-> "raise", exc |-> e] : e \in TransportErrors }
  \cup { HttpResponse(200, ChatBody(c)) : c \in ChatContents }
  \cup { HttpResponse(401, [type |-> "object", error |-> "invalid_api_key"]),
         HttpResponse(429, ChatBody(<<CJK>>)),
         HttpResponse(300, ChatBody(<<CJK>>)),
         HttpResponse(503, NotJson),
         HttpResponse(200, NotJson),
         HttpResponse(200, [type |-> "object"]),
         HttpResponse(200, [type |-> "object", choices |-> <<>>]),
         HttpResponse(200, [type |-> "object", choices |-> <<[index |-> 0]>>]),
         HttpResponse(200, [type |-> "object", choices |-> <<[index |-> 0, message |-> [role |-> "assistant"]]>>]) }

\* Values of the two environment variables.
MapKeys == {<<>>, <<"m", "k">>}
GroqKeys == {<<>>, <<"g", "k">>}

\* ------------------------------------------------------------ gateway

\* request.args.get(key, default): the query string is a set of <<key, value>> pairs.
args_get(args, key, default) ==
  IF \E p \in args : p[1] = key THEN (CHOOSE p \in args : p[1] = key)[2] ELSE default

\* Query strings of GET /api/weather.
WeatherQueries == {{}} \cup { {<<"city", c>>} : c \in Str }

\* Query strings of GET /api/geocode.
GeocodeQueries ==
  {{}} \cup { {<<"address", a>>} : a \in Str } \cup { {<<"city", c>>} : c \in Str }
  \cup { {<<"address", a>>, <<"city", c>>} : a \in Str, c \in Str }

\* weather() without its check of the city parameter.
weather_rejects_nothing(city) == FALSE

\* `if not city:` in weather().
weather_rejects(city) == Falsy(city)

\* `if not address:` in geo().
geo_rejects(address) == Falsy(address)

WeatherBadRequest ==
  [code |-> 400, json |-> [type |-> "object", success |-> FALSE, error |-> "City parameter is required"]]

GeoBadRequest ==
  [code |-> 400, json |-> [type |-> "object", success |-> FALSE, error |-> "Address parameter is required"]]

\* What Flask answers when the view function raises: 500 Internal Server Error.
InternalServerError == [code |-> 500, json |-> [type |-> "object"]]

\* `return jsonify(result)`: status 200 and the object as the body.
jsonify(result) == [code |-> 200, json |-> result]

\* The end of weather(): the tool's outcome `out` turned into the HTTP response.
weather_respond(out) == IF out.kind = "raise" THEN InternalServerError ELSE jsonify(out.value)

\* geo() answering 502 when the tool's object reports a failure.
geo_respond_bad_gateway(out) ==
  IF out.kind = "raise" THEN InternalServerError
  ELSE IF "status" \in DOMAIN out.value /\ out.value.status = "0"
       THEN [code |-> 502, json |-> out.value]
       ELSE jsonify(out.value)

\* The end of geo().
geo_respond(out) == IF out.kind = "raise" THEN InternalServerError ELSE jsonify(out.value)

\* --------------------------------------------------------- tool layer

GEOCODE_URL == "https://restapi.amap.com/v3/geocode/geo"
WEATHER_URL == "https://restapi.amap.com/v3/weather/weatherInfo"
GROQ_URL == "https://api.groq.com/openai/v1/chat/completions"

\* The timeout of the translation request, in seconds.
TRANSLATE_TIMEOUT == 10

\* requests.get behind a session that sends every request again.
requests_get_retry(url, params) ==
  << [method |-> "GET", url |-> url, params |-> params], [method |-> "GET", url |-> url, params |-> params] >>

\* The requests one call of requests.get(url, params=params) puts on the wire.
requests_get(url, params) == << [method |-> "GET", url |-> url, params |-> params] >>

\* The requests the one call of requests.post in the translation helper puts on the wire.
requests_post(key, city_name) ==
  << [method |-> "POST", url |-> GROQ_URL, bearer |-> key, model |-> "llama3-70b-8192",
      user |-> city_name, timeout |-> TRANSLATE_TIMEOUT] >>

\* geocode() trimming the address as get_weather() trims the city.
geocode_params_stripped(address, city, key) ==
  [address |-> strip(address), city |-> city, output |-> "json", key |-> key]

\* params of geocode().
geocode_params(address, city, key) ==
  [address |-> address, city |-> city, output |-> "json", key |-> key]

\* params of get_weather().
weather_params(processed_city, key) ==
  [city |-> processed_city, key |-> key, output |-> "json", extensions |-> "base"]

\* The helper without its check of the credential.
translation_enabled_always(key) == TRUE

\* `if not GROQ_API_KEY:` is false: the helper goes on to the POST.
translation_enabled(key) == ~Falsy(key)

\* The test with the regular expression [a-z].
needs_translation_lowercase(processed_city) ==
  \E i \in 1..Len(processed_city) : processed_city[i] = "b"

\* `if re.search('[a-zA-Z]', processed_city):` in get_weather().
needs_translation(processed_city) == re_search_latin(processed_city)

\* The try block without response.raise_for_status().
translate_try_no_status_check(o) ==
  IF o.kind = "raise" THEN o
  ELSE IF json(o).kind = "raise" THEN json(o)
  ELSE LET data == json(o).value IN
       IF data.type # "object" THEN Raise("TypeError", "list indices must be integers or slices, not str")
       ELSE IF "choices" \notin DOMAIN data THEN Raise("KeyError", "'choices'")
       ELSE IF Len(data.choices) = 0 THEN Raise("IndexError", "list index out of range")
       ELSE IF "message" \notin DOMAIN data.choices[1] THEN Raise("KeyError", "'message'")
       ELSE IF "content" \notin DOMAIN data.choices[1].message THEN Raise("KeyError", "'content'")
       ELSE Return(strip(data.choices[1].message.content))

\* The try block without .strip() on the content.
translate_try_no_strip(o) ==
  IF o.kind = "raise" THEN o
  ELSE IF raise_for_status(o).kind = "raise" THEN raise_for_status(o)
  ELSE IF json(o).kind = "raise" THEN json(o)
  ELSE LET data == json(o).value IN
       IF data.type # "object" THEN Raise("TypeError", "list indices must be integers or slices, not str")
       ELSE IF "choices" \notin DOMAIN data THEN Raise("KeyError", "'choices'")
       ELSE IF Len(data.choices) = 0 THEN Raise("IndexError", "list index out of range")
       ELSE IF "message" \notin DOMAIN data.choices[1] THEN Raise("KeyError", "'message'")
       ELSE IF "content" \notin DOMAIN data.choices[1].message THEN Raise("KeyError", "'content'")
       ELSE Return(data.choices[1].message.content)

\* The try block of the translation helper, once requests.post ended with `o`.
translate_try(o) ==
  IF o.kind = "raise" THEN o
  ELSE IF raise_for_status(o).kind = "raise" THEN raise_for_status(o)
  ELSE IF json(o).kind = "raise" THEN json(o)
  ELSE LET data == json(o).value IN
       IF data.type # "object" THEN Raise("TypeError", "list indices must be integers or slices, not str")
       ELSE IF "choices" \notin DOMAIN data THEN Raise("KeyError", "'choices'")
       ELSE IF Len(data.choices) = 0 THEN Raise("IndexError", "list index out of range")
       ELSE IF "message" \notin DOMAIN data.choices[1] THEN Raise("KeyError", "'message'")
       ELSE IF "content" \notin DOMAIN data.choices[1].message THEN Raise("KeyError", "'content'")
       ELSE Return(strip(data.choices[1].message.content))

\* try/except of the translation helper: the translated name, or city_name on any exception.
translate_result(city_name, o) ==
  LET t == translate_try(o) IN IF t.kind = "raise" THEN city_name ELSE t.value

\* The try block of geocode(), once requests.get ended with `o`.
geocode_try(o) ==
  IF o.kind = "raise" THEN o
  ELSE IF json(o).kind = "raise" THEN json(o)
  ELSE IF dict_get_status(json(o).value).kind = "raise" THEN dict_get_status(json(o).value)
  ELSE Return(json(o).value)

\* try/except of geocode(): the data, or the synthetic failure object.
geocode_result(o) ==
  LET t == geocode_try(o) IN
  IF t.kind = "raise" THEN Return([type |-> "object", status |-> "0", info |-> str(t.exc)]) ELSE t

\* The try block of get_weather(), once requests.get ended with `o`.
weather_try(o) ==
  IF o.kind = "raise" THEN o
  ELSE IF json(o).kind = "raise" THEN json(o)
  ELSE IF dict_get_status(json(o).value).kind = "raise" THEN dict_get_status(json(o).value)
  ELSE Return(json(o).value)

\* get_weather() without its try/except.
weather_result_uncaught(o) == weather_try(o)

\* try/except of get_weather().
weather_result(o) ==
  LET t == weather_try(o) IN
  IF t.kind = "raise" THEN Return([type |-> "object", status |-> "0", info |-> str(t.exc)]) ELSE t

\* -------------------------------------------------------------- state

Requests == 1..NumReq

\* processed_city as a module global: every call uses the one frame.
frame_shared(r) == 1

\* The call frame a request's handler thread runs get_weather() in: its own.
frame(r) == r

VARIABLES
  MAP_API_KEY,     \* module global of mcp_tools, read from the environment at import
  GROQ_API_KEY,    \* module global of mcp_tools, read from the environment at import
  pc,              \* pc[r]: where request r's handler thread is
  query,           \* query[r]: route and query string of request r
  processed_city,  \* processed_city[f]: the local of get_weather() in frame f
  calls,           \* calls[r]: the tool-layer functions request r has called, in order
  outbound,        \* outbound[r]: the HTTP requests request r has put on the wire, in order
  answers,         \* answers[r]: the outcomes of request r's outbound calls, in order
  result,          \* result[r]: the outcome of request r's tool-layer call
  response,        \* response[r]: the HTTP response the gateway gave request r
  overlap          \* overlap[r]: another request was in flight while r was being served

vars == <<MAP_API_KEY, GROQ_API_KEY, pc, query, processed_city, calls, outbound, answers, result, response, overlap>>

config == <<MAP_API_KEY, GROQ_API_KEY>>

NoQuery == [route |-> "none", args |-> {}]
NoResult == [kind |-> "none"]
NoResponse == [code |-> 0]

Init ==
  /\ MAP_API_KEY \in MapKeys
  /\ GROQ_API_KEY \in GroqKeys
  /\ pc = [r \in Requests |-> "idle"]
  /\ query = [r \in Requests |-> NoQuery]
  /\ processed_city = [r \in Requests |-> <<>>]
  /\ calls = [r \in Requests |-> <<>>]
  /\ outbound = [r \in Requests |-> <<>>]
  /\ answers = [r \in Requests |-> <<>>]
  /\ result = [r \in Requests |-> NoResult]
  /\ response = [r \in Requests |-> NoResponse]
  /\ overlap = [r \in Requests |-> FALSE]

Call(fn, args) == [fn |-> fn, args |-> args]

\* Request q's handler thread is blocked in an outbound call.
InFlight(q) == pc[q] \in {"await_translate", "await_weather", "await_geocode"}

\* overlap once the server starts a handler thread for r beside the running ones.
Overlap(r) ==
  [q \in Requests |-> IF q = r THEN \E p \in Requests : InFlight(p) ELSE overlap[q] \/ InFlight(q)]

\* GET /api/weather arrives: weather() up to its first blocking call, get_weather()
\* and the translation helper included.
weather(r, args) ==
  /\ pc[r] = "idle"
  /\ query' = [query EXCEPT ![r] = [route |-> "/api/weather", args |-> args]]
  /\ LET city == args_get(args, "city", <<>>) IN
     IF weather_rejects(city)
     THEN /\ response' = [response EXCEPT ![r] = WeatherBadRequest]
          /\ pc' = [pc EXCEPT ![r] = "done"]
          /\ UNCHANGED <<processed_city, calls, outbound>>
     ELSE LET stripped == strip(city) IN
          /\ processed_city' = [processed_city EXCEPT ![frame(r)] = stripped]
          /\ UNCHANGED response
          /\ IF needs_translation(stripped)
             THEN /\ calls' = [calls EXCEPT ![r] =
                        <<Call("get_weather", <<city>>), Call("_translate_city_to_chinese", <<stripped>>)>>]
                  /\ IF translation_enabled(GROQ_API_KEY)
                     THEN /\ outbound' = [outbound EXCEPT ![r] = requests_post(GROQ_API_KEY, stripped)]
                          /\ pc' = [pc EXCEPT ![r] = "await_translate"]
                     ELSE /\ outbound' = [outbound EXCEPT ![r] =
                                requests_get(WEATHER_URL, weather_params(stripped, MAP_API_KEY))]
                          /\ pc' = [pc EXCEPT ![r] = "await_weather"]
             ELSE /\ calls' = [calls EXCEPT ![r] = <<Call("get_weather", <<city>>)>>]
                  /\ outbound' = [outbound EXCEPT ![r] =
                        requests_get(WEATHER_URL, weather_params(stripped, MAP_API_KEY))]
                  /\ pc' = [pc EXCEPT ![r] = "await_weather"]
  /\ overlap' = Overlap(r)
  /\ UNCHANGED <<config, answers, result>>

\* requests.post of the translation helper ends with outcome o: the rest of the helper,
\* then get_weather() up to its requests.get.
TranslateReply(r, o) ==
  /\ pc[r] = "await_translate"
  /\ LET name == translate_result(processed_city[frame(r)], o) IN
     /\ processed_city' = [processed_city EXCEPT ![frame(r)] = name]
     /\ outbound' = [outbound EXCEPT ![r] = @ \o requests_get(WEATHER_URL, weather_params(name, MAP_API_KEY))]
  /\ answers' = [answers EXCEPT ![r] = Append(@, o)]
  /\ pc' = [pc EXCEPT ![r] = "await_weather"]
  /\ UNCHANGED <<config, query, calls, result, response, overlap>>

\* requests.get of get_weather() ends with outcome o: the rest of get_weather() and of weather().
WeatherReply(r, o) ==
  /\ pc[r] = "await_weather"
  /\ answers' = [answers EXCEPT ![r] = Append(@, o)]
  /\ result' = [result EXCEPT ![r] = weather_result(o)]
  /\ response' = [response EXCEPT ![r] = weather_respond(weather_result(o))]
  /\ pc' = [pc EXCEPT ![r] = "done"]
  /\ UNCHANGED <<config, query, processed_city, calls, outbound, overlap>>

\* GET /api/geocode arrives: geo() up to the requests.get of geocode().
geo(r, args) ==
  /\ pc[r] = "idle"
  /\ query' = [query EXCEPT ![r] = [route |-> "/api/geocode", args |-> args]]
  /\ LET address == args_get(args, "address", <<>>)
         city == args_get(args, "city", <<>>)
     IN IF geo_rejects(address)
        THEN /\ response' = [response EXCEPT ![r] = GeoBadRequest]
             /\ pc' = [pc EXCEPT ![r] = "done"]
             /\ UNCHANGED <<calls, outbound>>
        ELSE /\ calls' = [calls EXCEPT ![r] = <<Call("geocode", <<address, city>>)>>]
             /\ outbound' = [outbound EXCEPT ![r] =
                   requests_get(GEOCODE_URL, geocode_params(address, city, MAP_API_KEY))]
             /\ pc' = [pc EXCEPT ![r] = "await_geocode"]
             /\ UNCHANGED response
  /\ overlap' = Overlap(r)
  /\ UNCHANGED <<config, processed_city, answers, result>>

\* requests.get of geocode() ends with outcome o: the rest of geocode() and of geo().
GeocodeReply(r, o) ==
  /\ pc[r] = "await_geocode"
  /\ answers' = [answers EXCEPT ![r] = Append(@, o)]
  /\ result' = [result EXCEPT ![r] = geocode_result(o)]
  /\ response' = [response EXCEPT ![r] = geo_respond(geocode_result(o))]
  /\ pc' = [pc EXCEPT ![r] = "done"]
  /\ UNCHANGED <<config, query, processed_city, calls, outbound, overlap>>

\* One request, served alone.
Solo == 1

\* The requests that can arrive for r: r has not been used yet.
Arrivals(r, queries) == IF pc[r] = "idle" THEN queries ELSE {}

Next ==
  \/ \E args \in Arrivals(Solo, WeatherQueries) : weather(Solo, args)
  \/ \E o \in PostOutcomes : TranslateReply(Solo, o)
  \/ \E o \in GetOutcomes : WeatherReply(Solo, o)
  \/ \E args \in Arrivals(Solo, GeocodeQueries) : geo(Solo, args)
  \/ \E o \in GetOutcomes : GeocodeReply(Solo, o)

Spec == Init /\ [][Next]_vars

\* ------------------------------------------- concurrent specification

\* Representative requests and outcomes of the concurrent specification.
ConcWeatherQueries == { {}, {<<"city", <<"b">>>>}, {<<"city", <<SP, CJK>>>>} }
ConcGeocodeQueries == { {<<"address", <<CJK>>>>, <<"city", <<"B">>>>} }
ConcGetOutcomes ==
  { [kind |-> "raise", exc |-> [type |-> "Timeout", msg |-> "Read timed out."]],
    HttpResponse(200, [type |-> "object", status |-> "1", info |-> "OK", infocode |-> "10000"]) }
ConcPostOutcomes ==
  { [kind |-> "raise", exc |-> [type |-> "Timeout", msg |-> "Read timed out."]],
    HttpResponse(200, ChatBody(<<CJK>>)) }

NextConc ==
  \/ \E r \in Requests : \E args \in Arrivals(r, ConcWeatherQueries) : weather(r, args)
  \/ \E r \in Requests, o \in ConcPostOutcomes : TranslateReply(r, o)
  \/ \E r \in Requests, o \in ConcGetOutcomes : WeatherReply(r, o)
  \/ \E r \in Requests : \E args \in Arrivals(r, ConcGeocodeQueries) : geo(r, args)
  \/ \E r \in Requests, o \in ConcGetOutcomes : GeocodeReply(r, o)

SpecConc == Init /\ [][NextConc]_vars

\* ------------------------------------------------- reading the state

Arrived(r) == pc[r] # "idle"
Done(r) == pc[r] = "done"
IsWeather(r) == query[r].route = "/api/weather"
IsGeocode(r) == query[r].route = "/api/geocode"
CityArg(r) == args_get(query[r].args, "city", <<>>)
AddressArg(r) == args_get(query[r].args, "address", <<>>)

\* The required parameter of request r: city for weather, address for geocode.
Required(r) == IF IsWeather(r) THEN CityArg(r) ELSE AddressArg(r)

\* The positions of request r's outbound requests to url.
SentTo(r, url) == { i \in 1..Len(outbound[r]) : outbound[r][i].url = url }

CalledFn(r, fn) == \E i \in 1..Len(calls[r]) : calls[r][i].fn = fn

LastAnswer(r) == answers[r][Len(answers[r])]

\* The outcome is no HTTP response, or a response whose body is not JSON.
TransportOrDecodeFailure(o) == o.kind = "raise" \/ o.body.type = "text"

\* The body of a chat-completion answer holds choices[0].message.content.
HasContent(o) ==
  /\ o.kind = "response"
  /\ o.body.type = "object"
  /\ "choices" \in DOMAIN o.body
  /\ Len(o.body.choices) >= 1
  /\ "message" \in DOMAIN o.body.choices[1]
  /\ "content" \in DOMAIN o.body.choices[1].message

Is2xx(o) == o.kind = "response" /\ o.status_code >= 200 /\ o.status_code < 300
Is4xx5xx(o) == o.kind = "response" /\ o.status_code >= 400 /\ o.status_code < 600

\* Request r has sent its translation request and has had its outcome.
TranslationAnswered(r) ==
  /\ IsWeather(r)
  /\ SentTo(r, GROQ_URL) # {}
  /\ Len(answers[r]) >= 1

\* ------------------------------------------------------------- claims

\* C1 as stated: a gateway request whose required parameter is empty or only
\* whitespace is answered 400 and never calls the tool layer.
C1_Original ==
  \A r \in Requests :
    Arrived(r) /\ strip(Required(r)) = <<>> => response[r].code = 400 /\ calls[r] = <<>>

\* C1 as amended: a gateway request whose required parameter is absent or empty
\* is answered 400, and neither calls the tool layer nor sends anything upstream.
C1_EmptyRejected ==
  \A r \in Requests :
    Arrived(r) /\ Required(r) = <<>> =>
      response[r] = (IF IsWeather(r) THEN WeatherBadRequest ELSE GeoBadRequest)
      /\ calls[r] = <<>> /\ outbound[r] = <<>>

C1_Witness ==
  \E r \in Requests :
    Arrived(r) /\ IsGeocode(r) /\ AddressArg(r) = <<>> /\ CityArg(r) # <<>> /\ response[r].code = 400

\* C2: when the provider GET raises a transport error or the body does not decode,
\* get_weather / geocode return an object with status "0" and a non-empty info,
\* and raise nothing.
C2_FailureNormalised ==
  \A r \in Requests :
    Done(r) /\ calls[r] # <<>> /\ TransportOrDecodeFailure(LastAnswer(r)) =>
      result[r].kind = "return" /\ result[r].value.status = "0" /\ result[r].value.info # ""

C2_Witness ==
  \E r \in Requests :
    Done(r) /\ IsWeather(r) /\ calls[r] # <<>> /\ LastAnswer(r).kind = "raise"
    /\ result[r].value.info = "Read timed out."

\* C3: in get_weather, a trimmed city with no Latin letter never invokes the
\* translation helper; one with a Latin letter, the credential configured, makes
\* exactly one translation request, before the weather request.
C3_TranslationGate ==
  \A r \in Requests :
    IsWeather(r) /\ calls[r] # <<>> =>
      LET name == strip(CityArg(r)) IN
      /\ ~re_search_latin(name) =>
           ~CalledFn(r, "_translate_city_to_chinese") /\ SentTo(r, GROQ_URL) = {}
      /\ re_search_latin(name) /\ GROQ_API_KEY # <<>> =>
           SentTo(r, GROQ_URL) = {1} /\ \A i \in SentTo(r, WEATHER_URL) : i > 1

C3_Witness ==
  \E r \in Requests :
    Done(r) /\ IsWeather(r) /\ CityArg(r) = <<CJK, "B">> /\ GROQ_API_KEY # <<>>
    /\ Len(outbound[r]) = 2 /\ outbound[r][1].url = GROQ_URL /\ outbound[r][2].url = WEATHER_URL

\* The weather request of r, sent after a translation that did not translate:
\* it carries the name the helper was given, which get_weather holds again.
UntranslatedWeatherRequest(r) ==
  LET given == outbound[r][1].user IN
  /\ given = strip(CityArg(r))
  /\ pc[r] \in {"await_weather", "done"}
  /\ Len(outbound[r]) = 2
  /\ outbound[r][2].url = WEATHER_URL
  /\ outbound[r][2].params.city = given
  /\ processed_city[r] = given

\* C4 as stated: when the translation request fails (timeout, a status that is
\* not 2xx, or a body without choices/message/content), the helper returns the
\* name it was given and get_weather sends its weather request with that name.
C4_Original ==
  \A r \in Requests :
    TranslationAnswered(r)
    /\ (answers[r][1].kind = "raise" \/ ~Is2xx(answers[r][1]) \/ ~HasContent(answers[r][1]))
    => UntranslatedWeatherRequest(r)

\* C4 as amended: when the translation request fails (a transport error such as
\* a timeout, a 4xx or 5xx status, or a body without choices/message/content),
\* the helper returns the name it was given and get_weather sends its weather
\* request with that name.
C4_TranslationFailureNotFatal ==
  \A r \in Requests :
    TranslationAnswered(r)
    /\ (answers[r][1].kind = "raise" \/ Is4xx5xx(answers[r][1]) \/ ~HasContent(answers[r][1]))
    => UntranslatedWeatherRequest(r)

C4_Witness ==
  \E r \in Requests :
    TranslationAnswered(r) /\ Is4xx5xx(answers[r][1]) /\ HasContent(answers[r][1])
    /\ Done(r) /\ CityArg(r) = <<SP, "b">> /\ outbound[r][2].params.city = <<"b">>

\* C5: without the translation credential, get_weather on a city with Latin
\* letters sends nothing to the translation endpoint and sends its weather
\* request with the untranslated (trimmed) city.
C5_NoCredential ==
  GROQ_API_KEY = <<>> =>
    \A r \in Requests :
      IsWeather(r) /\ calls[r] # <<>> =>
        /\ SentTo(r, GROQ_URL) = {}
        /\ Len(outbound[r]) = 1
        /\ outbound[r][1].url = WEATHER_URL
        /\ outbound[r][1].params.city = strip(CityArg(r))

C5_Witness ==
  /\ GROQ_API_KEY = <<>>
  /\ \E r \in Requests :
       Done(r) /\ IsWeather(r) /\ CityArg(r) = <<"B", "b">>
       /\ CalledFn(r, "_translate_city_to_chinese") /\ outbound[r][1].params.city = <<"B", "b">>

\* C6: a request with a non-empty required parameter is answered 200 with the
\* tool layer's object as the body, whatever that object says; 400 is answered
\* only for a missing required parameter.
C6_Relay ==
  \A r \in Requests :
    Done(r) =>
      IF Required(r) # <<>>
      THEN response[r].code = 200 /\ result[r].kind = "return" /\ response[r].json = result[r].value
      ELSE response[r].code = 400

C6_Witness ==
  \E r \in Requests :
    Done(r) /\ IsGeocode(r) /\ calls[r] # <<>> /\ LastAnswer(r).kind = "raise"
    /\ response[r].code = 200 /\ response[r].json.status = "0"

\* The one request geocode sends: address and city as they were passed.
GeocodeRequestVerbatim(r) ==
  outbound[r] = << [method |-> "GET", url |-> GEOCODE_URL,
                    params |-> [address |-> AddressArg(r), city |-> CityArg(r),
                                output |-> "json", key |-> MAP_API_KEY]] >>

\* C7 as stated: geocode sends {address, city, output: "json", key} with address
\* and city unmodified, and returns the provider's JSON body unchanged.
C7_Original ==
  \A r \in Requests :
    IsGeocode(r) /\ calls[r] # <<>> =>
      /\ GeocodeRequestVerbatim(r)
      /\ Done(r) /\ LastAnswer(r).kind = "response" /\ LastAnswer(r).body.type # "text" =>
           result[r] = Return(LastAnswer(r).body)

\* C7 as amended: geocode sends {address, city, output: "json", key} with address
\* and city unmodified, and returns the provider's body unchanged when that body
\* is a JSON object.
C7_GeocodeVerbatim ==
  \A r \in Requests :
    IsGeocode(r) /\ calls[r] # <<>> =>
      /\ GeocodeRequestVerbatim(r)
      /\ Done(r) /\ LastAnswer(r).kind = "response" /\ LastAnswer(r).body.type = "object" =>
           result[r] = Return(LastAnswer(r).body)

C7_Witness ==
  \E r \in Requests :
    Done(r) /\ IsGeocode(r) /\ AddressArg(r) = <<SP, CJK>> /\ CityArg(r) = <<"b", SP>>
    /\ LastAnswer(r).kind = "response" /\ LastAnswer(r).status_code = 500
    /\ result[r].value.info = "SERVICE_NOT_AVAILABLE"

\* The translation produced a name: an answer that is no 4xx/5xx and holds content.
TranslationSucceeded(r) ==
  /\ re_search_latin(strip(CityArg(r)))
  /\ GROQ_API_KEY # <<>>
  /\ answers[r][1].kind = "response"
  /\ ~Is4xx5xx(answers[r][1])
  /\ HasContent(answers[r][1])

\* C8: the city sent to the weather endpoint is the stripped translation when the
\* trimmed input has a Latin letter and translation succeeds, else the trimmed
\* input; the translation helper is always called with the trimmed input.
C8_CitySent ==
  \A r \in Requests :
    IsWeather(r) =>
      LET trimmed == strip(CityArg(r)) IN
      /\ \A i \in 1..Len(calls[r]) :
           calls[r][i].fn = "_translate_city_to_chinese" => calls[r][i].args = <<trimmed>>
      /\ \A i \in SentTo(r, GROQ_URL) : outbound[r][i].user = trimmed
      /\ \A i \in SentTo(r, WEATHER_URL) :
           outbound[r][i].params.city =
             IF TranslationSucceeded(r)
             THEN strip(answers[r][1].body.choices[1].message.content)
             ELSE trimmed

C8_Witness ==
  \E r \in Requests :
    Done(r) /\ IsWeather(r) /\ CityArg(r) = <<"b", SP>> /\ TranslationSucceeded(r)
    /\ answers[r][1].body.choices[1].message.content = <<SP, CJK, CJK, SP>>
    /\ outbound[r][2].params.city = <<CJK, CJK>>

\* C9: no retry. A geocode call sends exactly one request, to the geocoding
\* endpoint; a get_weather call sends exactly one request to the weather endpoint
\* and at most one to the translation endpoint; a rejected request sends none.
C9_NoRetry ==
  \A r \in Requests :
    LET geoN == Cardinality(SentTo(r, GEOCODE_URL))
        weatherN == Cardinality(SentTo(r, WEATHER_URL))
        groqN == Cardinality(SentTo(r, GROQ_URL))
    IN /\ Len(outbound[r]) = geoN + weatherN + groqN
       /\ CalledFn(r, "geocode") => geoN = 1 /\ weatherN = 0 /\ groqN = 0
       /\ CalledFn(r, "get_weather") =>
            /\ geoN = 0
            /\ groqN <= 1
            /\ weatherN = (IF pc[r] = "await_translate" THEN 0 ELSE 1)
       /\ Arrived(r) /\ calls[r] = <<>> => response[r].code = 400 /\ outbound[r] = <<>>

C9_Witness ==
  \E r \in Requests :
    Done(r) /\ IsWeather(r) /\ Len(answers[r]) = 2
    /\ answers[r][1].kind = "raise" /\ answers[r][2].kind = "raise" /\ Len(outbound[r]) = 2

\* What the request with query q sends and is answered when it is served alone
\* and its outbound calls end with the outcomes ans, in order.
ServedAlone(q, ans) ==
  IF q.route = "/api/weather"
  THEN LET city == args_get(q.args, "city", <<>>)
           trimmed == strip(city)
           get(name) == [method |-> "GET", url |-> WEATHER_URL,
                         params |-> [city |-> name, key |-> MAP_API_KEY, output |-> "json", extensions |-> "base"]]
       IN IF city = <<>> THEN [outbound |-> <<>>, response |-> WeatherBadRequest]
          ELSE IF re_search_latin(trimmed) /\ GROQ_API_KEY # <<>>
               THEN [outbound |-> requests_post(GROQ_API_KEY, trimmed)
                                    \o <<get(translate_result(trimmed, ans[1]))>>,
                     response |-> weather_respond(weather_result(ans[2]))]
               ELSE [outbound |-> <<get(trimmed)>>,
                     response |-> weather_respond(weather_result(ans[1]))]
  ELSE LET address == args_get(q.args, "address", <<>>)
           city == args_get(q.args, "city", <<>>)
       IN IF address = <<>> THEN [outbound |-> <<>>, response |-> GeoBadRequest]
          ELSE [outbound |-> << [method |-> "GET", url |-> GEOCODE_URL,
                                 params |-> [address |-> address, city |-> city,
                                             output |-> "json", key |-> MAP_API_KEY]] >>,
                response |-> geo_respond(geocode_result(ans[1]))]

\* Everything request q's handler thread owns.
Local(q) == <<pc[q], query[q], processed_city[q], calls[q], outbound[q], answers[q], result[q], response[q]>>

\* Every finished request sent and was answered what it would have alone.
AsIfAlone ==
  \A r \in Requests :
    Done(r) =>
      /\ outbound[r] = ServedAlone(query[r], answers[r]).outbound
      /\ response[r] = ServedAlone(query[r], answers[r]).response

\* A step is one request's: it leaves the configuration and every other request's state alone.
OwnStateOnly ==
  /\ config' = config
  /\ \E r \in Requests : \A q \in Requests \ {r} : Local(q)' = Local(q)

\* C10: under any interleaving of concurrently served requests, each request is
\* answered (and sends upstream) what it would if served alone with the same
\* upstream answers; no step touches another request's state, and the two keys
\* never change after load.
C10_Isolation == []AsIfAlone /\ [][OwnStateOnly]_vars

C10_Witness ==
  \E r \in Requests, q \in Requests :
    /\ r # q /\ overlap[r] /\ overlap[q]
    /\ Done(r) /\ IsWeather(r) /\ CityArg(r) = <<"b">> /\ Len(answers[r]) = 2
    /\ answers[r][1].kind = "raise"
    /\ IsWeather(q) /\ CityArg(q) = <<SP, CJK>> /\ pc[q] = "await_weather"

====
